---- MODULE Spec2Model ----
(***************************************************************************)
(* MemoryService (backend/src/memory/memory.service.ts): the process-local *)
(* maps memories, feedbackHistory and userPreferences, the durable object  *)
(* store behind saveToGreenfield / loadFromGreenfield /                    *)
(* deleteFromGreenfield, and the embedding / search service.               *)
(*                                                                         *)
(* Every public method is an async function.  A call is a record in        *)
(* `calls`; its pc names the outbound request it is awaiting.  The code    *)
(* that runs between two awaits is one atomic step (the event loop runs it *)
(* to completion); the outcome of an outbound request is chosen when the   *)
(* request completes.                                                      *)
(***************************************************************************)
EXTENDS Integers, Sequences, FiniteSets, TLC

VARIABLES
    memories,          \* Map<userId, MemoryEntry[]>; no key is << >>
    feedbackHistory,   \* Map<userId, FeedbackEntry[]>; no key is << >>
    userPreferences,   \* Map<userId, UserPreferences>: the object's
                       \* reference; no key is 0
    prefObjects,       \* the UserPreferences objects, by reference
    greenfield,        \* the bucket: per user the JSON text of each object
    calls,             \* the calls in flight
    updated,           \* the users updateUserPreferences was called for
    last               \* the call that returned most recently, when it was
                       \* a clearUserData or an updateUserPreferences

vars == <<memories, feedbackHistory, userPreferences, prefObjects,
          greenfield, calls, updated, last>>

----------------------------------------------------------------------------
(* Bounds of the model *)

\* call records (calls in flight at once, at most)
MaxCalls == 2
\* memory entries held in memory, over all users
MaxMem == 2
\* feedback entries held in memory, of one user
MaxFb == 1
\* storeFeedback is not begun for a user one of whose goals has a larger
\* denominator
MaxGoalDen == 1
\* largest `limit` argument
MaxLimit == 2

(* Program constants *)

\* new Array(768).fill(0)
EmbeddingDim == 768
\* getConversationHistory(userId, limit = 50)
DefaultHistoryLimit == 50

----------------------------------------------------------------------------
(* Values *)

Users == {"u1", "u2"}
Slots == 1 .. MaxCalls
\* references to UserPreferences objects; 0 is "no object"
Refs == 1 .. (Cardinality(Users) + MaxCalls)

\* An optional value is a sequence of length 0 (undefined / null) or 1.
None == << >>
Some(x) == << x >>
IsSome(o) == Len(o) = 1
Get(o) == o[1]

\* A number[] whose elements are all equal: its length and the element.
Vector(n, x) == [len |-> n, fill |-> x]
\* new Array(768).fill(0)
ZeroVector == Vector(EmbeddingDim, 0)
\* what POST /embed answers when it answers
ServiceVectors == {Vector(EmbeddingDim, 1)}

MemoryIds == {"m1", "m2"}
LearningIds == {"learning_1"}
AllIds == MemoryIds \cup LearningIds

\* MemoryEntry
MemoryEntry(id, u, t, c, a, emb) ==
    [id |-> id, userId |-> u, type |-> t, content |-> c,
     actionId |-> a, embedding |-> emb]

\* the entries callers pass to storeMemory
InputEntries ==
    { MemoryEntry(id, u, "conversation", "hi", None, None) :
        id \in MemoryIds, u \in Users }
    \cup { MemoryEntry(id, u, "action", "post", None,
                       Some(Vector(EmbeddingDim, 2))) :
             id \in MemoryIds, u \in Users }

\* a dyadic rational n / d, d a power of two, in lowest terms
RECURSIVE Reduce(_)
Reduce(q) == IF q.d > 1 /\ q.n % 2 = 0
             THEN Reduce([n |-> q.n \div 2, d |-> q.d \div 2])
             ELSE q
Num(k) == [n |-> k, d |-> 1]

\* FeedbackEntry; metrics.engagement is optional
FeedbackEntry(a, u, o, eng, ls, ts) ==
    [actionId |-> a, userId |-> u, outcome |-> o, engagement |-> eng,
     learnings |-> ls, timestamp |-> ts]

InputFeedback ==
    { FeedbackEntry("a1", u, "success", eng, ls, 9) :
        u \in Users, eng \in {None, Some(Num(3))},
        ls \in {<< >>, <<"l1">>} }

\* UserPreferences; engagementGoals.overall is optional
Preferences(u, tone, overall) ==
    [userId |-> u, tonePreference |-> tone,
     engagementGoals |-> [overall |-> overall]]

InputPreferences ==
    { Preferences(u, "professional", None) : u \in Users }
    \cup { Preferences(u, "casual", Some(Num(4))) : u \in Users }

\* JSON.stringify(data) and the parse axios does on a response
Stringify(data) == [json |-> data]
Parse(text) == text.json

\* one user's objects in the bucket
NoObjects == [memories |-> None, feedback |-> None, preferences |-> None]

\* A call record: the method, the request it awaits (pc), its argument and
\* its locals (entry: the entry storeMemory works on; fb, li: the feedback
\* and the index of the learning being stored; prefs: the preferences object
\* it holds; body: the JSON text of the put it has issued; qemb: the query
\* embedding), then its outcome (result, raised) and the outcomes of the
\* requests it has made (log).
Idle ==
    [op |-> "idle", pc |-> "idle", userId |-> "u1", arg |-> None,
     entry |-> None, fb |-> None, li |-> 0, prefs |-> 0, body |-> None,
     limit |-> 0, qemb |-> None, result |-> None, raised |-> FALSE,
     log |-> << >>]

NewCall(op, u, arg) == [Idle EXCEPT !.op = op, !.userId = u, !.arg = Some(arg)]

NoCall == [op |-> "none", userId |-> "u1", arg |-> None, log |-> << >>]

Init ==
    /\ memories = [u \in Users |-> << >>]
    /\ feedbackHistory = [u \in Users |-> << >>]
    /\ userPreferences = [u \in Users |-> 0]
    /\ prefObjects = [r \in Refs |-> None]
    /\ greenfield = [u \in Users |-> NoObjects]
    /\ calls = [s \in Slots |-> Idle]
    /\ updated = {}
    /\ last = NoCall

----------------------------------------------------------------------------
(* Outbound requests: what each private helper makes of the outcome *)

\* generateEmbedding: resp is the vector POST /embed answered, or None when
\* the request failed; the catch block returns the zero vector
generateEmbeddingNoFallback(resp) == resp
generateEmbeddingEmpty(resp) == IF IsSome(resp) THEN resp ELSE Some(Vector(0, 0))
generateEmbedding(resp) == IF IsSome(resp) THEN resp ELSE Some(ZeroVector)
GenerateEmbeddingRethrows(resp) == ~IsSome(resp)
GenerateEmbeddingThrows(resp) == FALSE

\* saveToGreenfield: PUT {userId}/{dataType}.json; the catch block logs
saveToGreenfield(store, u, dataType, body, ok) ==
    IF ok THEN [store EXCEPT ![u][dataType] = Some(body)] ELSE store
SaveToGreenfieldThrows(ok) == FALSE

\* loadFromGreenfield: GET {userId}/{dataType}.json; a failed request or a
\* missing object makes axios throw, and the catch block returns null
loadFromGreenfieldStale(store, u, dataType, ok) ==
    IF IsSome(store[u][dataType])
    THEN Some(Parse(Get(store[u][dataType])))
    ELSE None
loadFromGreenfield(store, u, dataType, ok) ==
    IF ok /\ IsSome(store[u][dataType])
    THEN Some(Parse(Get(store[u][dataType])))
    ELSE None

\* deleteFromGreenfield: DELETE {userId}; the catch block logs
deleteFromGreenfieldBucket(store, u, ok) ==
    IF ok THEN [v \in DOMAIN store |-> NoObjects] ELSE store
deleteFromGreenfield(store, u, ok) ==
    IF ok THEN [store EXCEPT ![u] = NoObjects] ELSE store
DeleteFromGreenfieldRethrows(ok) == ~ok
DeleteFromGreenfieldThrows(ok) == FALSE

\* storeEmbedding: POST /store; the catch block logs
StoreEmbeddingRethrows(ok) == ~ok
StoreEmbeddingThrows(ok) == FALSE

\* Array.prototype.slice(start) on a sequence
Slice(seq, start) ==
    LET n == Len(seq)
        from == IF start < 0
                THEN (IF n + start < 0 THEN 0 ELSE n + start)
                ELSE (IF start > n THEN n ELSE start)
    IN  SubSeq(seq, from + 1, n)

----------------------------------------------------------------------------
(* Calls *)

\* the number of entries in all the lists of a map
RECURSIVE HeldIn(_, _)
HeldIn(map, us) ==
    IF us = {} THEN 0
    ELSE LET u == CHOOSE x \in us : TRUE
         IN  Len(map[u]) + HeldIn(map, us \ {u})
Held(map) == HeldIn(map, Users)

InFlight == {s \in Slots : calls[s].op # "idle"}
\* a call may begin while fewer than k are in flight; it takes the first
\* free record
CanBegin(k) == Cardinality(InFlight) < k
FreeSlot == CHOOSE s \in Slots :
                calls[s].op = "idle" /\ \A t \in Slots : t < s => calls[t].op # "idle"

Logged(c, req, ok) == [c EXCEPT !.log = Append(@, [req |-> req, ok |-> ok])]

\* the method returns normally / its catch block rethrows
Returned(c, result) ==
    [c EXCEPT !.pc = "done", !.result = result, !.prefs = 0, !.raised = FALSE]
Raised(c) ==
    [c EXCEPT !.pc = "done", !.result = None, !.prefs = 0, !.raised = TRUE]

\* preferences objects: the ones the cache or a call in flight refers to
Live(cache, cs) ==
    ({cache[u] : u \in Users} \cup {cs[s].prefs : s \in Slots}) \ {0}
Collect(objs, cache, cs) ==
    [r \in Refs |-> IF r \in Live(cache, cs) THEN objs[r] ELSE None]
FreshRef(cache, cs) ==
    CHOOSE r \in Refs :
        /\ r \notin Live(cache, cs)
        /\ \A q \in Refs : q < r => q \in Live(cache, cs)

----------------------------------------------------------------------------
(* storeMemory *)

\* lines 73-79: push the entry onto the user's list, set the list, and issue
\* the put of the whole list as it is now
StoreMemoryPushThenIndex(s, c, e) ==
    LET list == Append(memories[e.userId], e) IN
    /\ memories' = [memories EXCEPT ![e.userId] = list]
    /\ calls' = [calls EXCEPT ![s] =
                    [c EXCEPT !.entry = Some(e), !.body = Some(Stringify(list)),
                              !.pc = "sm_index"]]
StoreMemoryPushReplace(s, c, e) ==
    /\ memories' = [memories EXCEPT ![e.userId] = << e >>]
    /\ calls' = [calls EXCEPT ![s] =
                    [c EXCEPT !.entry = Some(e), !.body = Some(Stringify(<< e >>)),
                              !.pc = "sm_put"]]
StoreMemoryPushEntryOnly(s, c, e) ==
    /\ memories' = [memories EXCEPT ![e.userId] = Append(@, e)]
    /\ calls' = [calls EXCEPT ![s] =
                    [c EXCEPT !.entry = Some(e), !.body = Some(Stringify(<< e >>)),
                              !.pc = "sm_put"]]
StoreMemoryPush(s, c, e) ==
    LET list == Append(memories[e.userId], e) IN
    /\ memories' = [memories EXCEPT ![e.userId] = list]
    /\ calls' = [calls EXCEPT ![s] =
                    [c EXCEPT !.entry = Some(e), !.body = Some(Stringify(list)),
                              !.pc = "sm_put"]]

\* lines 66-71: an entry without an embedding first awaits generateEmbedding
BeginStoreMemory(k, entries) ==
    \E e \in entries :
        /\ CanBegin(k)
        /\ Held(memories) < MaxMem
        /\ LET s == FreeSlot
               c == NewCall("storeMemory", e.userId, e)
           IN  IF IsSome(e.embedding)
               THEN StoreMemoryPush(s, c, e)
               ELSE /\ calls' = [calls EXCEPT ![s] =
                                    [c EXCEPT !.entry = Some(e), !.pc = "sm_embed"]]
                    /\ UNCHANGED memories
        /\ UNCHANGED <<feedbackHistory, userPreferences, prefObjects,
                       greenfield, updated, last>>

\* line 70: generateEmbedding answers; then lines 73-79
EmbedDone(s) ==
    /\ calls[s].pc = "sm_embed"
    /\ \E resp \in {None} \cup {Some(v) : v \in ServiceVectors} :
          LET c == Logged(calls[s], "embed", IsSome(resp))
              e == [Get(c.entry) EXCEPT
                       !.embedding = generateEmbedding(resp)]
          IN  IF GenerateEmbeddingThrows(resp)
              THEN /\ calls' = [calls EXCEPT ![s] = Raised(c)]
                   /\ UNCHANGED memories
              ELSE StoreMemoryPush(s, c, e)
    /\ prefObjects' = Collect(prefObjects, userPreferences, calls')
    /\ UNCHANGED <<feedbackHistory, userPreferences, greenfield, updated, last>>

\* line 79: the put of the memory list completes; line 82 issues the
\* index request
MemoryPutDone(s) ==
    /\ calls[s].pc = "sm_put"
    /\ \E ok \in BOOLEAN :
          LET c == Logged(calls[s], "put_memories", ok) IN
          /\ greenfield' = saveToGreenfield(greenfield, Get(c.entry).userId,
                                            "memories", Get(c.body), ok)
          /\ calls' = [calls EXCEPT ![s] =
                          IF SaveToGreenfieldThrows(ok)
                          THEN Raised(c)
                          ELSE [c EXCEPT !.pc = "sm_index", !.body = None]]
    /\ prefObjects' = Collect(prefObjects, userPreferences, calls')
    /\ UNCHANGED <<memories, feedbackHistory, userPreferences, updated, last>>

----------------------------------------------------------------------------
(* updateUserPreferences, and the tail of updatePreferencesFromFeedback *)

UpdateStartNoCache(s, c, r, objs, cache) ==
    /\ userPreferences' = cache
    /\ calls' = [calls EXCEPT ![s] =
                    [c EXCEPT !.prefs = 0, !.body = Some(Stringify(Get(objs[r]))),
                              !.pc = "up_put"]]

\* lines 169-170: set the cache entry, issue the put of the object as it
\* is.  objs and cache are the objects and the cache as the step has left
\* them so far.
UpdateStart(s, c, r, objs, cache) ==
    LET p == Get(objs[r]) IN
    /\ userPreferences' = [cache EXCEPT ![p.userId] = r]
    /\ calls' = [calls EXCEPT ![s] =
                    [c EXCEPT !.prefs = 0, !.body = Some(Stringify(p)),
                              !.pc = "up_put"]]

\* lines 408-422: the loop over feedback.learnings from index i on (each
\* learning a storeMemory of a new entry of type 'feedback'), then
\* updateUserPreferences(preferences)
LearningsFrom(s, c, i, lid, objs, cache) ==
    LET fb == Get(c.fb) IN
    IF i <= Len(fb.learnings)
    THEN /\ calls' = [calls EXCEPT ![s] =
                         [c EXCEPT !.li = i, !.pc = "sm_embed",
                                   !.entry = Some(MemoryEntry(lid, fb.userId,
                                       "feedback", fb.learnings[i],
                                       Some(fb.actionId), None))]]
         /\ userPreferences' = cache
    ELSE UpdateStart(s, c, c.prefs, objs, cache)

\* line 82: the index request completes.  storeMemory returns; inside
\* storeFeedback the loop goes on.
IndexDone(s) ==
    /\ calls[s].pc = "sm_index"
    /\ \E ok \in BOOLEAN, lid \in LearningIds :
          LET c == Logged(calls[s], "index", ok) IN
          IF StoreEmbeddingThrows(ok)
          THEN /\ calls' = [calls EXCEPT ![s] = Raised(c)]
               /\ UNCHANGED userPreferences
          ELSE IF c.op = "storeMemory"
          THEN /\ calls' = [calls EXCEPT ![s] = Returned(c, None)]
               /\ UNCHANGED userPreferences
          ELSE LearningsFrom(s, c, c.li + 1, lid, prefObjects,
                             userPreferences)
    /\ prefObjects' = Collect(prefObjects, userPreferences', calls')
    /\ UNCHANGED <<memories, feedbackHistory, greenfield, updated, last>>

\* lines 167-177: updateUserPreferences(P), P an object of the caller's
BeginUpdateUserPreferences(k, inputs) ==
    \E p \in inputs :
        /\ CanBegin(k)
        /\ LET r == FreshRef([userPreferences EXCEPT ![p.userId] = 0], calls)
               objs == [prefObjects EXCEPT ![r] = Some(p)]
           IN  /\ UpdateStart(FreeSlot,
                              NewCall("updateUserPreferences", p.userId, p),
                              r, objs, userPreferences)
               /\ prefObjects' = Collect(objs, userPreferences', calls')
        /\ updated' = updated \cup {p.userId}
        /\ UNCHANGED <<memories, feedbackHistory, greenfield, last>>

\* line 170: the put of the preferences completes
PreferencesPutDone(s) ==
    /\ calls[s].pc = "up_put"
    /\ \E ok \in BOOLEAN :
          LET c == Logged(calls[s], "put_preferences", ok) IN
          /\ greenfield' = saveToGreenfield(greenfield,
                                Parse(Get(c.body)).userId, "preferences",
                                Get(c.body), ok)
          /\ calls' = [calls EXCEPT ![s] =
                          IF SaveToGreenfieldThrows(ok)
                          THEN Raised(c)
                          ELSE Returned(c, None)]
    /\ prefObjects' = Collect(prefObjects, userPreferences, calls')
    /\ UNCHANGED <<memories, feedbackHistory, userPreferences, updated, last>>

----------------------------------------------------------------------------
(* storeFeedback and updatePreferencesFromFeedback *)

\* a number is truthy unless it is 0 (or absent)
Truthy(o) == IsSome(o) /\ Get(o).n # 0
\* (currentGoal + engagement) / 2
NewGoal(g, e) == Reduce([n |-> g.n * e.d + e.n * g.d, d |-> 2 * g.d * e.d])

\* lines 401-405: the object the call holds is changed in place
Nudge(objs, r, fb) ==
    LET p == Get(objs[r])
        ov == p.engagementGoals.overall
        currentGoal == IF Truthy(ov) THEN Get(ov) ELSE Num(0)
    IN  IF Truthy(fb.engagement)
        THEN [objs EXCEPT ![r] = Some([p EXCEPT !.engagementGoals.overall =
                                  Some(NewGoal(currentGoal, Get(fb.engagement)))])]
        ELSE objs

\* the preferences of a user in the cache, in the bucket and in the hands
\* of calls in flight
KnownPreferences(u) ==
    {prefObjects[r] : r \in Refs}
    \cup {IF IsSome(greenfield[u].preferences)
           THEN Some(Parse(Get(greenfield[u].preferences)))
           ELSE None}

\* lines 122-127: push the feedback, set the list, issue the put of the list
BeginStoreFeedback(k, inputs) ==
    \E fb \in inputs :
        /\ CanBegin(k)
        /\ Len(feedbackHistory[fb.userId]) < MaxFb
        /\ \A o \in KnownPreferences(fb.userId) :
              IsSome(o) /\ IsSome(Get(o).engagementGoals.overall)
                  => Get(Get(o).engagementGoals.overall).d <= MaxGoalDen
        /\ Held(memories) + Len(fb.learnings) <= MaxMem
        /\ LET list == Append(feedbackHistory[fb.userId], fb) IN
           /\ feedbackHistory' = [feedbackHistory EXCEPT ![fb.userId] = list]
           /\ calls' = [calls EXCEPT ![FreeSlot] =
                  [NewCall("storeFeedback", fb.userId, fb) EXCEPT
                      !.fb = Some(fb), !.body = Some(Stringify(list)),
                      !.pc = "sf_put"]]
        /\ UNCHANGED <<memories, userPreferences, prefObjects, greenfield,
                       updated, last>>

\* line 127: the put of the feedback list completes; line 130 calls
\* updatePreferencesFromFeedback, whose getUserPreferences (line 396)
\* answers from the cache or issues the load
FeedbackPutDone(s) ==
    /\ calls[s].pc = "sf_put"
    /\ \E ok \in BOOLEAN, lid \in LearningIds :
          LET c == [Logged(calls[s], "put_feedback", ok) EXCEPT !.body = None]
              u == c.userId
              r == userPreferences[u]
              objs == Nudge(prefObjects, r, Get(c.fb))
          IN  /\ greenfield' = saveToGreenfield(greenfield, u, "feedback",
                                                Get(calls[s].body), ok)
              /\ IF SaveToGreenfieldThrows(ok)
                 THEN /\ calls' = [calls EXCEPT ![s] = Raised(c)]
                      /\ UNCHANGED userPreferences
                      /\ prefObjects' = Collect(prefObjects, userPreferences, calls')
                 ELSE IF r # 0
                 THEN /\ LearningsFrom(s, [c EXCEPT !.prefs = r], 1, lid, objs,
                                       userPreferences)
                      /\ prefObjects' = Collect(objs, userPreferences', calls')
                 ELSE /\ calls' = [calls EXCEPT ![s] = [c EXCEPT !.pc = "gp_load"]]
                      /\ UNCHANGED <<userPreferences, prefObjects>>
    /\ UNCHANGED <<memories, feedbackHistory, updated, last>>

----------------------------------------------------------------------------
(* getUserPreferences *)

\* lines 145-147: the cache is asked first
BeginGetUserPreferences(k, users) ==
    \E u \in users :
        /\ CanBegin(k)
        /\ LET c == NewCall("getUserPreferences", u, u)
               r == userPreferences[u]
           IN  calls' = [calls EXCEPT ![FreeSlot] =
                            IF r # 0
                            THEN Returned(c, prefObjects[r])
                            ELSE [c EXCEPT !.pc = "gp_load"]]
        /\ UNCHANGED <<memories, feedbackHistory, userPreferences,
                       prefObjects, greenfield, updated, last>>

\* lines 150-157: the load completes; a record found is put in the cache.
\* Inside storeFeedback, updatePreferencesFromFeedback goes on (lines
\* 398-422), or returns when there are no preferences.
LoadDone(s) ==
    /\ calls[s].pc = "gp_load"
    /\ \E ok \in BOOLEAN, lid \in LearningIds :
          LET u == calls[s].userId
              found == loadFromGreenfield(greenfield, u, "preferences", ok)
              c == Logged(calls[s], "load_preferences", ok)
              r == FreshRef([userPreferences EXCEPT ![u] = 0], calls)
              cache == [userPreferences EXCEPT ![u] = r]
              objs == [prefObjects EXCEPT ![r] = found]
          IN  IF ~IsSome(found)
              THEN /\ calls' = [calls EXCEPT ![s] = Returned(c, None)]
                   /\ UNCHANGED <<userPreferences, prefObjects>>
              ELSE IF c.op = "getUserPreferences"
              THEN /\ calls' = [calls EXCEPT ![s] = Returned(c, found)]
                   /\ userPreferences' = cache
                   /\ prefObjects' = Collect(objs, cache, calls')
              ELSE LET objs2 == Nudge(objs, r, Get(c.fb)) IN
                   /\ LearningsFrom(s, [c EXCEPT !.prefs = r], 1, lid,
                                    objs2, cache)
                   /\ prefObjects' = Collect(objs2, userPreferences', calls')
    /\ UNCHANGED <<memories, feedbackHistory, greenfield, updated, last>>

----------------------------------------------------------------------------
(* clearUserData *)

\* Map.delete(key): the key is left with no value
MapDeleteAll(map, u, none) == [v \in DOMAIN map |-> none]
MapDeleteNothing(map, u, none) == map
MapDelete(map, u, none) == [map EXCEPT ![u] = none]

\* lines 251-256: the three cache entries go, the delete is issued
BeginClearUserData(k, users) ==
    \E u \in users :
        /\ CanBegin(k)
        /\ memories' = MapDelete(memories, u, << >>)
        /\ feedbackHistory' = MapDelete(feedbackHistory, u, << >>)
        /\ userPreferences' = MapDelete(userPreferences, u, 0)
        /\ calls' = [calls EXCEPT ![FreeSlot] =
               [NewCall("clearUserData", u, u) EXCEPT !.pc = "cl_delete"]]
        /\ prefObjects' = Collect(prefObjects, userPreferences', calls')
        /\ UNCHANGED <<greenfield, updated, last>>

\* line 256: the delete completes
DeleteDone(s) ==
    /\ calls[s].pc = "cl_delete"
    /\ \E ok \in BOOLEAN :
          LET c == Logged(calls[s], "delete", ok) IN
          /\ greenfield' = deleteFromGreenfield(greenfield, c.userId, ok)
          /\ calls' = [calls EXCEPT ![s] =
                          IF DeleteFromGreenfieldThrows(ok)
                          THEN Raised(c)
                          ELSE Returned(c, None)]
    /\ UNCHANGED <<memories, feedbackHistory, userPreferences, prefObjects,
                   updated, last>>

----------------------------------------------------------------------------
(* retrieveMemories *)

\* lines 320-324: the user's entries whose id the search answered
searchFirstMemory(mems, u, ids) ==
    LET found == SelectSeq(mems[u], LAMBDA m : m.id \in ids)
    IN  IF found = << >> THEN found ELSE << found[1] >>
searchAllMemories(mems, u, ids) ==
    SelectSeq(mems["u1"] \o mems["u2"], LAMBDA m : m.id \in ids)
searchSimilarMemories(mems, u, ids) ==
    SelectSeq(mems[u], LAMBDA m : m.id \in ids)

\* lines 100-101: the query's embedding is asked for
BeginRetrieveMemories(k, users) ==
    \E u \in users, limit \in 1 .. MaxLimit :
        /\ CanBegin(k)
        /\ calls' = [calls EXCEPT ![FreeSlot] =
               [NewCall("retrieveMemories", u, limit) EXCEPT
                   !.limit = limit, !.pc = "rm_embed"]]
        /\ UNCHANGED <<memories, feedbackHistory, userPreferences,
                       prefObjects, greenfield, updated, last>>

\* line 101: generateEmbedding answers; line 104 issues the search
QueryEmbedDone(s) ==
    /\ calls[s].pc = "rm_embed"
    /\ \E resp \in {None} \cup {Some(v) : v \in ServiceVectors} :
          LET c == Logged(calls[s], "embed", IsSome(resp)) IN
          calls' = [calls EXCEPT ![s] =
                       IF GenerateEmbeddingThrows(resp)
                       THEN Returned(c, << >>)
                       ELSE [c EXCEPT !.qemb = generateEmbedding(resp),
                                      !.pc = "rm_search"]]
    /\ UNCHANGED <<memories, feedbackHistory, userPreferences, prefObjects,
                   greenfield, updated, last>>

\* lines 314-328: the search answers a set of identifiers, or fails and
\* the catch block returns []
SearchDone(s) ==
    /\ calls[s].pc = "rm_search"
    /\ \E resp \in {None} \cup {Some(ids) : ids \in SUBSET AllIds} :
          LET c == [Logged(calls[s], "search", IsSome(resp)) EXCEPT
                       !.body = resp]
          IN  calls' = [calls EXCEPT ![s] =
                  Returned(c, IF IsSome(resp)
                              THEN searchSimilarMemories(memories, c.userId,
                                                         Get(resp))
                              ELSE << >>)]
    /\ UNCHANGED <<memories, feedbackHistory, userPreferences, prefObjects,
                   greenfield, updated, last>>

----------------------------------------------------------------------------
(* getConversationHistory *)

getConversationHistory(list, limit) ==
    Slice(SelectSeq(list, LAMBDA m : m.type = "conversation"), 0 - limit)

\* lines 231-244: no await, the call completes in one step
CallGetConversationHistory(k, users) ==
    \E u \in users, limit \in (0 .. MaxLimit) \cup {DefaultHistoryLimit} :
        /\ CanBegin(k)
        /\ calls' = [calls EXCEPT ![FreeSlot] =
               Returned([NewCall("getConversationHistory", u, limit)
                            EXCEPT !.limit = limit],
                        getConversationHistory(memories[u], limit))]
        /\ UNCHANGED <<memories, feedbackHistory, userPreferences,
                       prefObjects, greenfield, updated, last>>

----------------------------------------------------------------------------
(* The caller takes the outcome of a completed call *)

Return(s) ==
    /\ calls[s].pc = "done"
    /\ calls' = [calls EXCEPT ![s] = Idle]
    /\ last' = IF calls[s].op \in {"clearUserData", "updateUserPreferences"}
               THEN [op |-> calls[s].op, userId |-> calls[s].userId,
                     arg |-> calls[s].arg, log |-> calls[s].log]
               ELSE NoCall
    /\ UNCHANGED <<memories, feedbackHistory, userPreferences, prefObjects,
                   greenfield, updated>>

----------------------------------------------------------------------------
(* Specifications *)

\* Memory entries: storeMemory, retrieveMemories and getConversationHistory
\* for two users, one call at a time (a caller awaits each call before it
\* makes the next).
Next ==
    \/ BeginStoreMemory(1, InputEntries)
    \/ BeginRetrieveMemories(1, Users)
    \/ CallGetConversationHistory(1, Users)
    \/ \E s \in Slots :
          \/ EmbedDone(s)
          \/ MemoryPutDone(s)
          \/ IndexDone(s)
          \/ QueryEmbedDone(s)
          \/ SearchDone(s)
          \/ Return(s)

Spec == Init /\ [][Next]_vars

\* Preferences and feedback: updateUserPreferences, getUserPreferences,
\* storeFeedback and clearUserData for one user, one call at a time.
PrefsUsers == {"u1"}
PrefsInputPreferences == {p \in InputPreferences : p.userId \in PrefsUsers}
PrefsInputFeedback == {f \in InputFeedback : f.userId \in PrefsUsers}

NextPrefs ==
    \/ BeginUpdateUserPreferences(1, PrefsInputPreferences)
    \/ BeginGetUserPreferences(1, PrefsUsers)
    \/ BeginStoreFeedback(1, PrefsInputFeedback)
    \/ BeginClearUserData(1, PrefsUsers)
    \/ \E s \in Slots :
          \/ PreferencesPutDone(s)
          \/ LoadDone(s)
          \/ FeedbackPutDone(s)
          \/ EmbedDone(s)
          \/ MemoryPutDone(s)
          \/ IndexDone(s)
          \/ DeleteDone(s)
          \/ Return(s)

SpecPrefs == Init /\ [][NextPrefs]_vars

----------------------------------------------------------------------------
(* Properties *)

\* the call made a request `req` that failed
Failed(c, req) ==
    \E i \in DOMAIN c.log : c.log[i].req = req /\ ~c.log[i].ok
Last(seq) == seq[Len(seq)]
HistoryLimits == (0 .. MaxLimit) \cup {DefaultHistoryLimit}

\* C1: when storeMemory has returned for a 'conversation' entry passed
\* without an embedding, whatever the embed request did, the
\* getConversationHistory of that user, for every limit, ends with that
\* entry, and the entry has an embedding.
C1_HistoryHasStoredEntry ==
    \A s \in Slots :
        LET c == calls[s] IN
        (/\ c.op = "storeMemory" /\ c.pc = "done" /\ ~c.raised
         /\ Get(c.arg).type = "conversation"
         /\ ~IsSome(Get(c.arg).embedding))
        => \A limit \in HistoryLimits :
              LET h == getConversationHistory(memories[c.userId], limit) IN
              /\ h # << >>
              /\ IsSome(Last(h).embedding)
              /\ Last(h) = [Get(c.arg) EXCEPT !.embedding = Last(h).embedding]

C1_Witness ==
    \E s \in Slots :
        /\ calls[s].op = "storeMemory" /\ calls[s].pc = "done"
        /\ Get(calls[s].arg).type = "conversation"
        /\ ~IsSome(Get(calls[s].arg).embedding)
        /\ ~Failed(calls[s], "embed")
        /\ Len(memories[calls[s].userId]) = 2

\* C2: a storeMemory whose embed request failed does not raise, and the
\* entry it has stored carries the all-zero vector of length 768.
C2_EmbedFailureStoresZeroVector ==
    \A s \in Slots :
        LET c == calls[s] IN
        (c.op = "storeMemory" /\ Failed(c, "embed"))
        => /\ ~c.raised
           /\ memories[c.userId] # << >>
           /\ Last(memories[c.userId]).id = Get(c.arg).id
           /\ Last(memories[c.userId]).embedding
                 = Some([len |-> 768, fill |-> 0])

C2_Witness ==
    \E s \in Slots :
        /\ calls[s].op = "storeMemory" /\ calls[s].pc = "done"
        /\ Failed(calls[s], "embed")
        /\ ~calls[s].raised

\* C3: a storeMemory whose put of the memory list failed ends by raising.
C3_PutFailureRaises ==
    \A s \in Slots :
        LET c == calls[s] IN
        (c.op = "storeMemory" /\ c.pc = "done" /\ Failed(c, "put_memories"))
        => c.raised

\* C4: a storeFeedback one of whose steps failed (the put of the feedback
\* list, the load or the put of the preferences) ends by raising.
C4_FeedbackFailureRaises ==
    \A s \in Slots :
        LET c == calls[s] IN
        (/\ c.op = "storeFeedback" /\ c.pc = "done"
         /\ \/ Failed(c, "put_feedback")
            \/ Failed(c, "load_preferences")
            \/ Failed(c, "put_preferences"))
        => c.raised

\* C5: a storeMemory whose index request failed has completed without
\* raising, its entry is the last of the user's in-memory list, and of the
\* durable list when the put of the list succeeded.
C5_IndexFailureKeepsEntry ==
    \A s \in Slots :
        LET c == calls[s]
            u == c.userId
        IN  (c.op = "storeMemory" /\ Failed(c, "index"))
            => /\ c.pc = "done" /\ ~c.raised
               /\ memories[u] # << >>
               /\ Last(memories[u]) = Get(c.entry)
               /\ ~Failed(c, "put_memories")
                    => /\ IsSome(greenfield[u].memories)
                       /\ Last(Parse(Get(greenfield[u].memories)))
                             = Get(c.entry)

C5_Witness ==
    \E s \in Slots :
        /\ calls[s].op = "storeMemory" /\ calls[s].pc = "done"
        /\ Failed(calls[s], "index")
        /\ ~Failed(calls[s], "put_memories")
        /\ IsSome(greenfield[calls[s].userId].memories)

\* C6: a clearUserData(u) that has completed has not raised and returns
\* nothing, whether its delete succeeded or failed, and the cache holds no
\* memory list, feedback list or preferences of u.
C6_ClearEmptiesCache ==
    \A s \in Slots :
        LET c == calls[s]
            u == c.userId
        IN  (c.op = "clearUserData" /\ c.pc = "done")
            => /\ ~c.raised /\ c.result = None
               /\ memories[u] = << >>
               /\ feedbackHistory[u] = << >>
               /\ userPreferences[u] = 0

C6_Witness ==
    \E s \in Slots :
        /\ calls[s].op = "clearUserData" /\ calls[s].pc = "done"
        /\ Failed(calls[s], "delete")
        /\ IsSome(greenfield[calls[s].userId].memories)
        /\ IsSome(greenfield[calls[s].userId].feedback)
        /\ IsSome(greenfield[calls[s].userId].preferences)

\* a getUserPreferences(u) has completed and the call that returned just
\* before it began is `op` for u
GetAfter(c, op) ==
    /\ c.op = "getUserPreferences" /\ c.pc = "done"
    /\ last.op = op /\ last.userId = c.userId

\* C7, as claimed: the getUserPreferences(u) that follows a clearUserData(u)
\* returns null.
C7_GetAfterClearIsNull ==
    \A s \in Slots :
        GetAfter(calls[s], "clearUserData") => calls[s].result = None

\* C7, amended: the getUserPreferences(u) that follows a clearUserData(u)
\* finds no cache entry and reads the durable store; it returns the record
\* the store holds when the read succeeds and there is one (the delete had
\* failed), and null otherwise.
C7_GetAfterClearReadsStore ==
    \A s \in Slots :
        LET c == calls[s]
            record == greenfield[c.userId].preferences
        IN  GetAfter(c, "clearUserData")
            => /\ Len(c.log) = 1
               /\ c.log[1].req = "load_preferences"
               /\ c.result = IF c.log[1].ok /\ IsSome(record)
                             THEN Some(Parse(Get(record)))
                             ELSE None

C7_Witness ==
    \E s \in Slots :
        /\ GetAfter(calls[s], "clearUserData")
        /\ Failed(last, "delete")
        /\ IsSome(calls[s].result)

\* C8: every entry retrieveMemories(u, ...) returns has userId u, whatever
\* identifiers the search answered.
C8_RetrievedEntriesBelongToUser ==
    \A s \in Slots :
        LET c == calls[s] IN
        (c.op = "retrieveMemories" /\ c.pc = "done")
        => \A i \in DOMAIN c.result : c.result[i].userId = c.userId

C8_Witness ==
    \E s \in Slots, v \in Users :
        LET c == calls[s] IN
        /\ c.op = "retrieveMemories" /\ c.pc = "done"
        /\ v # c.userId
        /\ IsSome(c.body)
        /\ c.result # << >>
        /\ \E i \in DOMAIN memories[v] : memories[v][i].id \in Get(c.body)

\* C9, as claimed: retrieveMemories does not raise, and returns the empty
\* sequence when its embed request or its search request failed.
C9_AnyFailureReturnsEmpty ==
    \A s \in Slots :
        LET c == calls[s] IN
        (c.op = "retrieveMemories" /\ c.pc = "done")
        => /\ ~c.raised
           /\ (Failed(c, "embed") \/ Failed(c, "search")) => c.result = << >>

\* C9, amended: retrieveMemories does not raise; it returns the empty
\* sequence when its search request failed; when its embed request failed
\* it still makes the search, with the all-zero vector of length 768 as the
\* query embedding, and returns the user's entries the search named.
C9_SearchFailureReturnsEmpty ==
    \A s \in Slots :
        LET c == calls[s] IN
        (c.op = "retrieveMemories")
        => /\ ~c.raised
           /\ (c.pc = "done" /\ Failed(c, "search")) => c.result = << >>
           /\ (c.pc # "rm_embed" /\ Failed(c, "embed"))
                => /\ c.qemb = Some([len |-> 768, fill |-> 0])
                   /\ c.pc = "done"
                        => /\ Len(c.log) = 2
                           /\ c.log[2].ok
                                => c.result =
                                     SelectSeq(memories[c.userId],
                                       LAMBDA m : m.id \in Get(c.body))

C9_Witness ==
    \E s \in Slots :
        LET c == calls[s] IN
        /\ c.op = "retrieveMemories" /\ c.pc = "done"
        /\ Failed(c, "embed")
        /\ c.result # << >>

\* C10: getUserPreferences(u) returns null when updateUserPreferences was
\* never called for u and the store holds no preferences of u; the
\* getUserPreferences(u) that follows an updateUserPreferences(P) returns
\* P, whether the put of P succeeded or failed.
C10_GetReturnsLastWritten ==
    \A s \in Slots :
        LET c == calls[s] IN
        /\ (/\ c.op = "getUserPreferences" /\ c.pc = "done"
            /\ c.userId \notin updated
            /\ ~IsSome(greenfield[c.userId].preferences))
           => c.result = None
        /\ GetAfter(c, "updateUserPreferences") => c.result = last.arg

C10_Witness ==
    \E s \in Slots :
        /\ GetAfter(calls[s], "updateUserPreferences")
        /\ Failed(last, "put_preferences")
        /\ calls[s].result = last.arg
        /\ IsSome(calls[s].result)

----------------------------------------------------------------------------
(* Engagement goals: updateUserPreferences, storeFeedback and clearUserData *)
(* for one user, one call at a time; the feedback carries no learnings and *)
(* its engagement is absent, 0, 10 or 20.                                  *)

GoalsInputFeedback ==
    { FeedbackEntry("a1", u, "success", eng, << >>, 9) :
        u \in PrefsUsers,
        eng \in {None, Some(Num(0)), Some(Num(10)), Some(Num(20))} }

NextGoals ==
    \/ BeginUpdateUserPreferences(1, PrefsInputPreferences)
    \/ BeginStoreFeedback(1, GoalsInputFeedback)
    \/ BeginClearUserData(1, PrefsUsers)
    \/ \E s \in Slots :
          \/ PreferencesPutDone(s)
          \/ LoadDone(s)
          \/ FeedbackPutDone(s)
          \/ DeleteDone(s)
          \/ Return(s)

SpecGoals == Init /\ [][NextGoals]_vars

\* x = (g + e) / 2, all three rationals n / d
IsMean(x, g, e) == 2 * x.n * g.d * e.d = (g.n * e.d + e.n * g.d) * x.d

\* C11: when a storeFeedback for a user with preferences in the cache goes
\* past the put of the feedback list, and its metrics.engagement is a number
\* E (0 included), the user's engagementGoals.overall becomes (g + E) / 2,
\* g the value it had; an absent goal counts as 0, before and after.
C11_FeedbackAveragesGoal ==
    [][\A s \in Slots :
          LET c == calls[s]
              u == c.userId
              r == userPreferences[u]
              ov == Get(prefObjects[r]).engagementGoals.overall
              g == IF IsSome(ov) THEN Get(ov) ELSE [n |-> 0, d |-> 1]
              r2 == userPreferences'[u]
              ov2 == Get(prefObjects'[r2]).engagementGoals.overall
          IN  (/\ c.op = "storeFeedback" /\ c.pc = "sf_put"
               /\ calls'[s].pc # "sf_put"
               /\ r # 0
               /\ IsSome(Get(c.fb).engagement))
              => /\ r2 # 0
                 /\ IsMean(IF IsSome(ov2) THEN Get(ov2) ELSE [n |-> 0, d |-> 1],
                           g, Get(Get(c.fb).engagement))]_vars

----------------------------------------------------------------------------
(* learnFromFeedback *)

\* feedback lists learnFromFeedback is applied to have at most this length
MaxLearn == 3

\* new Date(timestamp).getHours(): the timestamp is in milliseconds; the
\* process runs in UTC
HourMs == 3600000
HoursPerDay == 24
getHours(ts) == (ts \div HourMs) % HoursPerDay

\* sums and means of rationals n / d, d > 0
AddQ(a, b) == [n |-> a.n * b.d + b.n * a.d, d |-> a.d * b.d]
RECURSIVE SumQ(_)
SumQ(seq) == IF seq = << >> THEN Num(0)
             ELSE AddQ(seq[1], SumQ(Tail(seq)))
MeanQ(seq) == LET t == SumQ(seq) IN [n |-> t.n, d |-> t.d * Len(seq)]
GreaterQ(a, b) == a.n * b.d > b.n * a.d

\* Number.prototype.toFixed(2) of a number >= 0: the decimal text with two
\* digits after the point, the nearest one, the larger of two equally near;
\* here its digits before and after the point
toFixed2(q) ==
    LET hundredths == (200 * q.n + q.d) \div (2 * q.d)
    IN  [units |-> hundredths \div 100, cents |-> hundredths % 100]

\* f.metrics.engagement || 0
EngagementOr0(f) == IF Truthy(f.engagement) THEN Get(f.engagement) ELSE Num(0)

\* a summary string: its template, the integer and the toFixed(2) text in it
Learning(kind, k, text) == [kind |-> kind, k |-> k, text |-> text]

\* lines 455-463: the engagements of the entries of each hour, in list order
RECURSIVE EngagementsAt(_, _)
EngagementsAt(feedback, hour) ==
    IF feedback = << >> THEN << >>
    ELSE (IF getHours(feedback[1].timestamp) = hour
          THEN << EngagementOr0(feedback[1]) >> ELSE << >>)
         \o EngagementsAt(Tail(feedback), hour)

\* lines 466-475: Object.entries lists integer keys in ascending order,
\* whatever the order they were added in; the loop goes on from hour h with
\* best = [hour, avg]
RECURSIVE BestHourLast(_, _, _)
BestHourLast(feedback, h, best) ==
    IF h >= HoursPerDay THEN best
    ELSE LET engagements == EngagementsAt(feedback, h)
             avg == MeanQ(engagements)
         IN  BestHourLast(feedback, h + 1,
                 IF engagements # << >> /\ ~GreaterQ(best.avg, avg)
                 THEN [hour |-> h, avg |-> avg]
                 ELSE best)
RECURSIVE BestHour(_, _, _)
BestHour(feedback, h, best) ==
    IF h >= HoursPerDay THEN best
    ELSE LET engagements == EngagementsAt(feedback, h)
             avg == MeanQ(engagements)
         IN  BestHour(feedback, h + 1,
                 IF engagements # << >> /\ GreaterQ(avg, best.avg)
                 THEN [hour |-> h, avg |-> avg]
                 ELSE best)

\* lines 451-482
analyzeTimePatternsLast(feedback) ==
    LET best == BestHourLast(feedback, 0, [hour |-> 0, avg |-> Num(0)])
    IN  << Learning("Best posting time", best.hour, toFixed2(best.avg)) >>
analyzeTimePatterns(feedback) ==
    LET best == BestHour(feedback, 0, [hour |-> 0, avg |-> Num(0)])
    IN  << Learning("Best posting time", best.hour, toFixed2(best.avg)) >>

\* lines 184-221
learnFromFeedbackNoTime(feedback) ==
    LET successfulActions == SelectSeq(feedback, LAMBDA f : f.outcome = "success")
    IN  IF successfulActions # << >>
        THEN << Learning("Average engagement on successful posts", 0,
                         toFixed2(Num(0))) >>
        ELSE << >>
learnFromFeedback(feedback) ==
    LET successfulActions == SelectSeq(feedback, LAMBDA f : f.outcome = "success")
        failedActions == SelectSeq(feedback, LAMBDA f : f.outcome = "failure")
        engagements == [i \in DOMAIN successfulActions |->
                           EngagementOr0(successfulActions[i])]
    IN  IF feedback = << >> THEN << >>
        ELSE (IF successfulActions # << >>
              THEN << Learning("Average engagement on successful posts", 0,
                               toFixed2(MeanQ(engagements))) >>
              ELSE << >>)
             \o (IF failedActions # << >>
                 THEN << Learning("actions failed", Len(failedActions),
                                  toFixed2(Num(0))) >>
                 ELSE << >>)
             \o analyzeTimePatterns(feedback)

\* lines 182-226: no await, the call completes in one step
CallLearnFromFeedback(k, users) ==
    \E u \in users :
        /\ CanBegin(k)
        /\ calls' = [calls EXCEPT ![FreeSlot] =
               Returned(NewCall("learnFromFeedback", u, u),
                        learnFromFeedback(feedbackHistory[u]))]
        /\ UNCHANGED <<memories, feedbackHistory, userPreferences,
                       prefObjects, greenfield, updated, last>>

\* The feedback a user has given: entries at 09:00 and 14:00 of the first
\* day and 09:00 of the second; successes with and without an engagement,
\* failures with engagement 5.
LearnTimestamps == {9 * HourMs, 14 * HourMs, 33 * HourMs}
LearnFeedback ==
    { FeedbackEntry("a1", "u1", "success", eng, << >>, ts) :
        eng \in {None, Some(Num(0)), Some(Num(5)), Some(Num(50))},
        ts \in LearnTimestamps }
    \cup { FeedbackEntry("a1", "u1", "failure", Some(Num(5)), << >>, ts) :
             ts \in LearnTimestamps }
RECURSIVE ListsOf(_, _)
ListsOf(S, n) ==
    IF n = 0 THEN {<< >>}
    ELSE LET shorter == ListsOf(S, n - 1)
         IN  shorter \cup {Append(l, x) : l \in shorter, x \in S}

\* learnFromFeedback applied to every feedback list of u1 up to MaxLearn
\* entries (the state after that many storeFeedback calls whose requests
\* all failed)
InitLearn ==
    /\ memories = [u \in Users |-> << >>]
    /\ feedbackHistory \in
          {[u \in Users |-> IF u = "u1" THEN l ELSE << >>] :
              l \in ListsOf(LearnFeedback, MaxLearn)}
    /\ userPreferences = [u \in Users |-> 0]
    /\ prefObjects = [r \in Refs |-> None]
    /\ greenfield = [u \in Users |-> NoObjects]
    /\ calls = [s \in Slots |-> Idle]
    /\ updated = {}
    /\ last = NoCall

NextLearn ==
    \/ CallLearnFromFeedback(1, {"u1"})
    \/ \E s \in Slots : Return(s)

SpecLearn == InitLearn /\ [][NextLearn]_vars

\* a learnFromFeedback call that has completed; the list it was applied to
\* is the user's feedback list
Learned(c) == c.op = "learnFromFeedback" /\ c.pc = "done"
BestTimes(result) ==
    {i \in DOMAIN result : result[i].kind = "Best posting time"}
\* the hours that have entries, the mean engagement of an hour, the hours
\* of highest mean
HoursOf(list) == {getHours(list[i].timestamp) : i \in DOMAIN list}
MeanAt(list, h) == MeanQ(EngagementsAt(list, h))
TopHours(list) ==
    {h \in HoursOf(list) :
        \A g \in HoursOf(list) : ~GreaterQ(MeanAt(list, g), MeanAt(list, h))}
\* the index of the first entry of hour h
FirstSeen(list, h) ==
    CHOOSE i \in DOMAIN list :
        /\ getHours(list[i].timestamp) = h
        /\ \A j \in 1 .. (i - 1) : getHours(list[j].timestamp) # h

\* C12: learnFromFeedback(u) returns the empty sequence when u's feedback
\* list is empty; for a non-empty list its result has exactly one 'Best
\* posting time' string, and it is the last.
C12_OneBestTimeLast ==
    \A s \in Slots :
        LET c == calls[s]
            list == feedbackHistory[c.userId]
        IN  Learned(c)
            => IF list = << >>
               THEN c.result = << >>
               ELSE BestTimes(c.result) = {Len(c.result)}

C12_Witness ==
    \E s \in Slots :
        /\ Learned(calls[s])
        /\ Len(feedbackHistory[calls[s].userId]) = 3
        /\ Len(calls[s].result) = 3
        /\ BestTimes(calls[s].result) = {3}

\* C13: for a non-empty feedback list the hour learnFromFeedback reports
\* is an hour that has entries and whose mean engagement (a missing
\* engagement counted as 0) is the highest of the hours that have entries,
\* and the average it reports is that mean to two decimals.
C13_BestHourHasHighestMean ==
    \A s \in Slots :
        LET c == calls[s]
            list == feedbackHistory[c.userId]
            best == Last(c.result)
        IN  (Learned(c) /\ list # << >>)
            => /\ best.k \in TopHours(list)
               /\ best.text = toFixed2(MeanAt(list, best.k))

\* C14, as claimed: when several hours share the highest mean, a mean
\* greater than 0, learnFromFeedback reports the one of them whose first
\* entry comes earliest in the list.
C14_TieGoesToFirstSeen ==
    \A s \in Slots :
        LET c == calls[s]
            list == feedbackHistory[c.userId]
            best == Last(c.result)
        IN  (/\ Learned(c) /\ list # << >>
             /\ Cardinality(TopHours(list)) > 1
             /\ \A h \in TopHours(list) : GreaterQ(MeanAt(list, h), Num(0)))
            => /\ best.k \in TopHours(list)
               /\ \A h \in TopHours(list) :
                     FirstSeen(list, best.k) <= FirstSeen(list, h)

\* C14, amended: when several hours share the highest mean and that mean
\* is greater than 0, learnFromFeedback reports the smallest of those
\* hours, whatever the order of the entries; when the highest mean is 0 it
\* reports hour 0.
C14_TieGoesToSmallestHour ==
    \A s \in Slots :
        LET c == calls[s]
            list == feedbackHistory[c.userId]
            best == Last(c.result)
        IN  (Learned(c) /\ list # << >>)
            => IF \A h \in TopHours(list) : GreaterQ(MeanAt(list, h), Num(0))
               THEN /\ best.k \in TopHours(list)
                    /\ \A h \in TopHours(list) : best.k <= h
               ELSE best.k = 0

C14_Witness ==
    \E s \in Slots :
        LET c == calls[s]
            list == feedbackHistory[c.userId]
        IN  /\ Learned(c) /\ list # << >>
            /\ TopHours(list) = {9, 14}
            /\ GreaterQ(MeanAt(list, 9), Num(0))
            /\ FirstSeen(list, 14) < FirstSeen(list, 9)
            /\ Last(c.result).k = 9

----------------------------------------------------------------------------
(* getConversationHistory and the memory list *)

\* C15: getConversationHistory(u, limit) returns the last `limit` entries
\* of type 'conversation' of u's in-memory list, all of them when there
\* are fewer, in the order of the list.
C15_HistoryIsLastLimit ==
    \A s \in Slots :
        LET c == calls[s]
            conv == SelectSeq(memories[c.userId],
                              LAMBDA m : m.type = "conversation")
            n == Len(conv)
            k == IF c.limit < n THEN c.limit ELSE n
        IN  (c.op = "getConversationHistory" /\ c.pc = "done")
            => c.result = [i \in 1 .. k |-> conv[n - k + i]]

\* C16: a storeFeedback that has completed for a user without preferences
\* (none in the cache, none in the bucket) has left the preferences absent,
\* its entry is the last of the user's feedback list, and the user's memory
\* list ends with one entry of type 'feedback' per learning of the entry,
\* in order.
C16_NoPreferencesStillStoresLearnings ==
    \A s \in Slots :
        LET c == calls[s]
            u == c.userId
            fb == Get(c.fb)
            k == Len(fb.learnings)
            n == Len(memories[u])
        IN  (/\ c.op = "storeFeedback" /\ c.pc = "done"
             /\ userPreferences[u] = 0
             /\ ~IsSome(greenfield[u].preferences))
            => /\ feedbackHistory[u] # << >>
               /\ Last(feedbackHistory[u]) = fb
               /\ n >= k
               /\ \A i \in 1 .. k :
                     /\ memories[u][n - k + i].type = "feedback"
                     /\ memories[u][n - k + i].content = fb.learnings[i]

----------------------------------------------------------------------------
(* Concurrent storeMemory: up to two calls in flight at once, for the same *)
(* user; no clearUserData.                                                 *)

ConcurrentEntries == {e \in InputEntries : e.userId = "u1"}

NextConcurrent ==
    \/ BeginStoreMemory(2, ConcurrentEntries)
    \/ \E s \in Slots :
          \/ EmbedDone(s)
          \/ MemoryPutDone(s)
          \/ IndexDone(s)
          \/ Return(s)

SpecConcurrent == Init /\ [][NextConcurrent]_vars

IsPrefix(a, b) == Len(a) <= Len(b) /\ a = SubSeq(b, 1, Len(a))

\* two storeMemory calls for the same user, in different call records, have
\* both completed
BothStored(s, t) ==
    /\ s # t
    /\ calls[s].op = "storeMemory" /\ calls[s].pc = "done"
    /\ calls[t].op = "storeMemory" /\ calls[t].pc = "done"
    /\ calls[s].userId = calls[t].userId
AllSucceeded(c) == \A i \in DOMAIN c.log : c.log[i].ok

\* C17: once two storeMemory calls for the same user have both completed,
\* however their steps were interleaved, the user's in-memory list holds
\* both entries (at two positions).
C17_BothEntriesInMemory ==
    \A s, t \in Slots :
        BothStored(s, t)
        => LET list == memories[calls[s].userId] IN
           \E i, j \in DOMAIN list :
              /\ i # j
              /\ list[i] = Get(calls[s].entry)
              /\ list[j] = Get(calls[t].entry)

\* the second call pushed its entry while the first was awaiting a request
C17_Witness ==
    \E s, t \in Slots :
        /\ BothStored(s, t)
        /\ s < t
        /\ memories[calls[s].userId]
              = << Get(calls[t].entry), Get(calls[s].entry) >>
        /\ Get(calls[s].entry) # Get(calls[t].entry)

\* C18: the put of a memory list overwrites the whole durable object with
\* the list as it was when the put was issued, so the durable list is
\* always a prefix of the in-memory list, and non-empty once a put has
\* succeeded; the state C18_Witness is reached, in which two concurrent
\* calls have completed, every request has succeeded, and the durable list
\* lacks the last entry of the in-memory list.
C18_DurableIsPrefixOfMemory ==
    \A u \in Users :
        LET obj == greenfield[u].memories IN
        /\ IsSome(obj) => IsPrefix(Parse(Get(obj)), memories[u])
        /\ (\E s \in Slots :
               /\ calls[s].op = "storeMemory" /\ calls[s].userId = u
               /\ calls[s].pc \in {"sm_index", "done"}
               /\ ~Failed(calls[s], "put_memories"))
           => IsSome(obj) /\ Parse(Get(obj)) # << >>

C18_Witness ==
    \E s, t \in Slots :
        LET u == calls[s].userId IN
        /\ BothStored(s, t)
        /\ AllSucceeded(calls[s]) /\ AllSucceeded(calls[t])
        /\ Len(memories[u]) = 2
        /\ IsSome(greenfield[u].memories)
        /\ Parse(Get(greenfield[u].memories)) = << memories[u][1] >>

----------------------------------------------------------------------------
(* Every operation that changes state, invoked for user u1 while user u2   *)
(* has a memory entry, a feedback entry and preferences, in memory and in  *)
(* the bucket.  A caller awaits each call before it makes the next, but    *)
(* clearUserData may be invoked while another call is in flight.           *)

ActingUsers == {"u1"}
AllEntries ==
    {e \in InputEntries : e.userId \in ActingUsers /\ e.id = "m1"
                          /\ e.type = "conversation"}
AllFeedback ==
    {f \in InputFeedback : f.userId \in ActingUsers /\ IsSome(f.engagement)
                           /\ f.learnings # << >>}
AllPreferences ==
    {p \in InputPreferences : p.userId \in ActingUsers
                              /\ p.tonePreference = "casual"}

\* what u2 has: the state after storeMemory, storeFeedback and
\* updateUserPreferences for u2, every request having succeeded
OtherEntry ==
    MemoryEntry("m2", "u2", "conversation", "hi", None,
                Some(Vector(EmbeddingDim, 1)))
OtherFeedback == FeedbackEntry("a1", "u2", "success", None, << >>, 9)
OtherPreferences == Preferences("u2", "professional", None)

InitAll ==
    /\ memories = [u \in Users |-> IF u = "u2" THEN << OtherEntry >> ELSE << >>]
    /\ feedbackHistory =
          [u \in Users |-> IF u = "u2" THEN << OtherFeedback >> ELSE << >>]
    /\ userPreferences = [u \in Users |-> IF u = "u2" THEN 1 ELSE 0]
    /\ prefObjects =
          [r \in Refs |-> IF r = 1 THEN Some(OtherPreferences) ELSE None]
    /\ greenfield =
          [u \in Users |->
              IF u = "u2"
              THEN [memories |-> Some(Stringify(<< OtherEntry >>)),
                    feedback |-> Some(Stringify(<< OtherFeedback >>)),
                    preferences |-> Some(Stringify(OtherPreferences))]
              ELSE NoObjects]
    /\ calls = [s \in Slots |-> Idle]
    /\ updated = {"u2"}
    /\ last = NoCall

NextAll ==
    \/ BeginStoreMemory(1, AllEntries)
    \/ BeginStoreFeedback(1, AllFeedback)
    \/ BeginUpdateUserPreferences(1, AllPreferences)
    \/ BeginGetUserPreferences(1, ActingUsers)
    \/ BeginClearUserData(2, ActingUsers)
    \/ \E s \in Slots :
          \/ EmbedDone(s)
          \/ MemoryPutDone(s)
          \/ IndexDone(s)
          \/ PreferencesPutDone(s)
          \/ FeedbackPutDone(s)
          \/ LoadDone(s)
          \/ DeleteDone(s)
          \/ Return(s)

SpecAll == InitAll /\ [][NextAll]_vars

\* the step begins a clearUserData for u
ClearBegins(u) ==
    \E s \in Slots :
        /\ calls[s].op = "idle"
        /\ calls'[s].op = "clearUserData" /\ calls'[s].userId = u

Acts(s) == calls'[s] # calls[s]
ActingUser(s) ==
    IF calls[s].op = "idle" THEN calls'[s].userId ELSE calls[s].userId

\* C20: a step of a call for user u leaves alone the memory list, the
\* feedback list and the preferences (the cache entry and the object) of
\* every other user v, and v's objects in the bucket.
C20_OtherUsersUntouched ==
    [][\A s \in Slots :
          Acts(s)
          => \A v \in Users \ {ActingUser(s)} :
                /\ memories'[v] = memories[v]
                /\ feedbackHistory'[v] = feedbackHistory[v]
                /\ userPreferences'[v] = userPreferences[v]
                /\ userPreferences[v] # 0
                     => prefObjects'[userPreferences[v]]
                           = prefObjects[userPreferences[v]]
                /\ greenfield'[v] = greenfield[v]]_vars

\* u1 has had its data stored and then cleared, in memory and in the
\* bucket, and u2 has everything it had
C20_Witness ==
    \E s \in Slots :
        /\ calls[s].op = "clearUserData" /\ calls[s].pc = "done"
        /\ calls[s].userId = "u1"
        /\ ~Failed(calls[s], "delete")
        /\ "u1" \in updated
        /\ memories["u2"] = << OtherEntry >>
        /\ feedbackHistory["u2"] = << OtherFeedback >>
        /\ prefObjects[userPreferences["u2"]] = Some(OtherPreferences)
        /\ greenfield["u2"].preferences = Some(Stringify(OtherPreferences))

----------------------------------------------------------------------------
(* retrieveMemories *)

\* a retrieveMemories call has completed and its search request succeeded;
\* c.body holds the identifiers the search answered
Retrieved(c) ==
    /\ c.op = "retrieveMemories" /\ c.pc = "done"
    /\ ~Failed(c, "search") /\ IsSome(c.body)
\* the positions of a list whose entry has one of the identifiers
Matching(list, ids) == {i \in DOMAIN list : list[i].id \in ids}

\* C21: when the search succeeds, retrieveMemories(u, ...) returns the
\* entries of u's in-memory list whose id the search answered, each once
\* per position, in the order of the list; an identifier no entry of u has
\* adds nothing, and the call does not raise.
C21_RetrievedAreTheMatches ==
    \A s \in Slots :
        LET c == calls[s]
            list == memories[c.userId]
            at == Matching(list, Get(c.body))
        IN  Retrieved(c)
            => /\ ~c.raised
               /\ Len(c.result) = Cardinality(at)
               /\ \A k \in DOMAIN c.result :
                     \E i \in at :
                        /\ c.result[k] = list[i]
                        /\ Cardinality({j \in at : j < i}) = k - 1

C21_Witness ==
    \E s \in Slots :
        LET c == calls[s] IN
        /\ Retrieved(c)
        /\ Len(c.result) = 2
        /\ c.result[1] # c.result[2]
        /\ \E id \in Get(c.body) :
              \A i \in DOMAIN memories[c.userId] : memories[c.userId][i].id # id

----------------------------------------------------------------------------
(* getUserPreferences *)

\* C22: a getUserPreferences(u) that begins with a cache entry for u
\* completes at once with that entry, without a read of the bucket and
\* without a change of the cache; one that begins without a cache entry
\* awaits a read of the bucket.  When the read completes and has found a
\* record, the call returns the record and the cache holds it; when the
\* read failed or found nothing, the call returns null and the cache has
\* no entry for u.
C22_CacheFirst ==
    [][\A s \in Slots :
          LET c == calls[s]
              d == calls'[s]
              u == d.userId
              record == greenfield[u].preferences
          IN  /\ (c.op = "idle" /\ d.op = "getUserPreferences")
                 => IF userPreferences[u] # 0
                    THEN /\ d.pc = "done" /\ d.log = << >>
                         /\ d.result = prefObjects[userPreferences[u]]
                         /\ IsSome(d.result)
                         /\ userPreferences' = userPreferences
                    ELSE /\ d.pc = "gp_load"
                         /\ userPreferences' = userPreferences
              /\ (c.op = "getUserPreferences" /\ c.pc = "gp_load"
                  /\ d.pc = "done")
                 => /\ Len(d.log) = 1
                    /\ d.log[1].req = "load_preferences"
                    /\ IF d.log[1].ok /\ IsSome(record)
                       THEN /\ d.result = Some(Parse(Get(record)))
                            /\ userPreferences'[u] # 0
                            /\ prefObjects'[userPreferences'[u]] = d.result
                       ELSE /\ d.result = None
                            /\ userPreferences'[u] = 0]_vars

\* a call that found no cache entry has read a record from the bucket,
\* returned it, and the cache holds it
C22_Witness ==
    \E s \in Slots :
        LET c == calls[s] IN
        /\ c.op = "getUserPreferences" /\ c.pc = "done"
        /\ Len(c.log) = 1 /\ c.log[1].ok
        /\ IsSome(c.result)
        /\ userPreferences[c.userId] # 0
        /\ prefObjects[userPreferences[c.userId]] = c.result

----------------------------------------------------------------------------
(* storeFeedback: the learnings *)

\* the storeMemory pushes a call has made: each is followed by a put of
\* the memory list
Pushes(c) == Cardinality({i \in DOMAIN c.log : c.log[i].req = "put_memories"})

\* C23: a storeFeedback that has completed for a user who has preferences
\* (in the cache or in the bucket), its entry having k learnings, has
\* pushed exactly k entries onto the user's memory list: the list ends with
\* k entries of type 'feedback', in the order of the learnings, each with
\* its learning as content and the feedback's actionId in its metadata.
C23_LearningsBecomeMemories ==
    \A s \in Slots :
        LET c == calls[s]
            u == c.userId
            fb == Get(c.fb)
            k == Len(fb.learnings)
            n == Len(memories[u])
        IN  (/\ c.op = "storeFeedback" /\ c.pc = "done"
             /\ \/ userPreferences[u] # 0
                \/ IsSome(greenfield[u].preferences))
            => /\ Pushes(c) = k
               /\ n >= k
               /\ \A i \in 1 .. k :
                     LET m == memories[u][n - k + i] IN
                     /\ m.type = "feedback"
                     /\ m.content = fb.learnings[i]
                     /\ m.actionId = Some(fb.actionId)

----------------------------------------------------------------------------
(* storeMemory: the order of its steps *)

\* the requests of a call that have finished, in the order they finished
Finished(c) == [i \in DOMAIN c.log |-> c.log[i].req]
\* the requests a storeMemory makes after generateEmbedding
AfterEmbed(c) == SelectSeq(Finished(c), LAMBDA r : r # "embed")

\* C24: a storeMemory that awaits the put of the memory list has appended
\* its entry, the put carries the list with the entry, and no index request
\* has been made; one that awaits the index request has had its put finish
\* (succeeded or failed); one that has completed has had the put and then
\* the index request finish.
C24_PushThenPutThenIndex ==
    \A s \in Slots :
        LET c == calls[s]
            u == c.userId
        IN  c.op = "storeMemory"
            => /\ c.pc = "sm_embed" => AfterEmbed(c) = << >>
               /\ c.pc = "sm_put"
                    => /\ AfterEmbed(c) = << >>
                       /\ memories[u] # << >>
                       /\ Last(memories[u]) = Get(c.entry)
                       /\ Parse(Get(c.body)) = memories[u]
               /\ c.pc = "sm_index" => AfterEmbed(c) = << "put_memories" >>
               /\ c.pc = "done"
                    => AfterEmbed(c) = << "put_memories", "index" >>

C24_Witness ==
    \E s \in Slots :
        LET c == calls[s] IN
        /\ c.op = "storeMemory" /\ c.pc = "done"
        /\ Failed(c, "put_memories")
        /\ ~Failed(c, "index")
        /\ Len(c.log) = 3

----------------------------------------------------------------------------
(* The limits of getConversationHistory and retrieveMemories *)

\* C25: getConversationHistory(u, limit) returns at most `limit` entries,
\* for every limit >= 0, 0 included.
C25_HistoryAtMostLimit ==
    \A s \in Slots :
        LET c == calls[s] IN
        (c.op = "getConversationHistory" /\ c.pc = "done" /\ c.limit >= 0)
        => Len(c.result) <= c.limit

\* C26: retrieveMemories(u, query, limit) returns at most
\* `limit` entries when the search answers at most `limit` identifiers,
\* whatever u's list holds, a list with the same id stored twice included.
C26_RetrievedAtMostLimit ==
    \A s \in Slots :
        LET c == calls[s] IN
        (Retrieved(c) /\ Cardinality(Get(c.body)) <= c.limit)
        => Len(c.result) <= c.limit

----------------------------------------------------------------------------
(* learnFromFeedback: the hour reported *)

\* C27: for a non-empty feedback list, the hour learnFromFeedback reports
\* is the hour of day of an entry of the list, lists in which every
\* engagement is 0 or absent included.
C27_BestHourIsAnEntrysHour ==
    \A s \in Slots :
        LET c == calls[s]
            list == feedbackHistory[c.userId]
        IN  (Learned(c) /\ list # << >>)
            => \E i \in DOMAIN list :
                  getHours(list[i].timestamp) = Last(c.result).k

----------------------------------------------------------------------------
(* storeFeedback overlapping clearUserData or updateUserPreferences *)

\* no other call is in flight
Alone(s) == \A t \in Slots \ {s} : calls[t].op = "idle"

\* C28: when a storeFeedback for u completes after a clearUserData(u) that
\* began while it was in flight (the feedback entry it had pushed is gone)
\* has returned, and no other call is in flight, the cache holds no
\* preferences for u.
C28_ClearDuringFeedbackLeavesNoPreferences ==
    [][\A s \in Slots :
          LET c == calls[s]
              u == c.userId
          IN  (/\ c.op = "storeFeedback" /\ c.pc # "done"
               /\ calls'[s].pc = "done"
               /\ feedbackHistory[u] = << >>
               /\ Alone(s))
              => userPreferences'[u] = 0]_vars

\* storeFeedback and updateUserPreferences for one user; a caller awaits
\* each call before it makes the next, but updateUserPreferences may be
\* invoked while another call is in flight.
NextOverlap ==
    \/ BeginStoreFeedback(1, PrefsInputFeedback)
    \/ BeginUpdateUserPreferences(2, PrefsInputPreferences)
    \/ \E s \in Slots :
          \/ FeedbackPutDone(s)
          \/ LoadDone(s)
          \/ EmbedDone(s)
          \/ MemoryPutDone(s)
          \/ IndexDone(s)
          \/ PreferencesPutDone(s)
          \/ Return(s)

SpecOverlap == Init /\ [][NextOverlap]_vars

\* C29: when a storeFeedback for u that holds the preferences object it
\* read goes on to write it back, after an updateUserPreferences(P) for u
\* has replaced the cache entry and returned, the cached preferences of u
\* still have the tonePreference of P afterwards.
C29_FeedbackKeepsLaterUpdate ==
    [][\A s \in Slots :
          LET c == calls[s]
              u == c.userId
              held == c.prefs
              cached == userPreferences[u]
          IN  (/\ c.op = "storeFeedback" /\ c.pc # "up_put"
               /\ calls'[s].pc = "up_put"
               /\ held # 0 /\ cached # 0 /\ cached # held
               /\ Alone(s))
              => /\ userPreferences'[u] # 0
                 /\ Get(prefObjects'[userPreferences'[u]]).tonePreference
                       = Get(prefObjects[cached]).tonePreference]_vars

----------------------------------------------------------------------------
(* Process restart: the maps are created empty again (lines 49-51), the    *)
(* calls in flight are gone, the bucket keeps its objects.                 *)

Restart ==
    /\ memories' = [u \in Users |-> << >>]
    /\ feedbackHistory' = [u \in Users |-> << >>]
    /\ userPreferences' = [u \in Users |-> 0]
    /\ prefObjects' = [r \in Refs |-> None]
    /\ calls' = [s \in Slots |-> Idle]
    /\ UNCHANGED <<greenfield, updated, last>>

\* storeMemory for one user, one call at a time, and restarts
NextRestart ==
    \/ BeginStoreMemory(1, ConcurrentEntries)
    \/ Restart
    \/ \E s \in Slots :
          \/ EmbedDone(s)
          \/ MemoryPutDone(s)
          \/ IndexDone(s)
          \/ Return(s)

SpecRestart == Init /\ [][NextRestart]_vars

\* C30: no step of a storeMemory, and no restart, takes an entry out of a
\* user's durable memories object: every entry of the durable list is
\* still in the durable list after the step.
C30_DurableEntriesStay ==
    [][\A u \in Users :
          LET before == greenfield[u].memories
              after == greenfield'[u].memories
          IN  IsSome(before)
              => /\ IsSome(after)
                 /\ \A i \in DOMAIN Parse(Get(before)) :
                       \E j \in DOMAIN Parse(Get(after)) :
                          Parse(Get(after))[j] = Parse(Get(before))[i]]_vars

====
